---- MODULE Spec2Model ----
(***************************************************************************)
(* Uber trip synchronisation service: a daily export file is located on an *)
(* SFTP server, parsed, projected/filtered and delivered to a sink.  The   *)
(* repository holds three snapshots of the same pipeline, modelled as the  *)
(* three values of `variant`:                                              *)
(*   "sheets" : src/src/index.ts      (append sink, Google Sheets)         *)
(*   "fs1"    : src/unnamed/part_001  (Firestore, one batch, merge)        *)
(*   "fs2"    : src/unnamed/part_002  (Firestore, batches of 500)          *)
(* Strings are sequences of one-character strings, so that trim,           *)
(* toLowerCase, includes and split are computed, not assumed.              *)
(***************************************************************************)
EXTENDS Integers, Sequences, FiniteSets, TLC

VARIABLES
    variant,    \* which snapshot of the program runs in this process
    env,        \* process.env: the credentials present and RUN_ON_START
    mainPc,     \* position of main()
    exitCode,   \* process exit code, -1 while the process is alive
    runs,       \* one record per invocation of syncUberTrips
    store,      \* the Firestore collection uber_trips: trip id -> document
    requests,   \* the POST requests received by the Sheets endpoint
    now,        \* logical clock read by new Date()
    tin,        \* the record sequence handed to the transformer or to the sink
    tout,       \* what the transformer and the staging of the sink made of tin
    snap        \* the collection as it was when tin was submitted again

vars == <<variant, env, mainPc, exitCode, runs, store, requests, now, tin, tout, snap>>

----------------------------------------------------------------------------
(* Bounds of the model *)

MaxRuns == 2
MaxClock == 1
MaxLen == 2
MaxTrips == 1200
MaxLiveRuns == 1

----------------------------------------------------------------------------
(* Strings *)

EMPTY == <<>>

WS == {" ", "\t", "\n", "\r"}

SetMin(S) == CHOOSE m \in S : \A x \in S : m <= x

SetMax(S) == CHOOSE m \in S : \A x \in S : m >= x

\* String.prototype.trim
Trim(s) ==
    LET keep == {i \in 1..Len(s) : s[i] \notin WS}
    IN  IF keep = {} THEN EMPTY ELSE SubSeq(s, SetMin(keep), SetMax(keep))

\* a + b for strings
Concat(a, b) == a \o b

COL_ID ==
    <<"I","D"," ","d","a"," ","v","i","a","g","e","m","/","U","b","e","r"," ","E","a","t","s">>
COL_TX_UTC ==
    <<"R","e","g","i","s","t","r","o"," ","d","e"," ","d","a","t","a"," ","e"," ","h","o","r",
    "a"," ","d","a"," ","t","r","a","n","s","a","ç","ã","o"," ","(","U","T","C",")">>
COL_ARR_DATE_UTC ==
    <<"D","a","t","a"," ","d","e"," ","c","h","e","g","a","d","a"," ","(","U","T","C",")">>
COL_ARR_TIME_UTC ==
    <<"H","o","r","a"," ","d","e"," ","c","h","e","g","a","d","a"," ","(","U","T","C",")">>
COL_ARR_DATE_LOCAL ==
    <<"D","a","t","a"," ","d","e"," ","c","h","e","g","a","d","a"," ","(","l","o","c","a","l",
    ")">>
COL_ARR_TIME_LOCAL ==
    <<"H","o","r","a"," ","d","e"," ","c","h","e","g","a","d","a"," ","(","l","o","c","a","l",
    ")">>
COL_REQ_DATE_LOCAL ==
    <<"D","a","t","a"," ","d","a"," ","s","o","l","i","c","i","t","a","ç","ã","o"," ","(","l",
    "o","c","a","l",")">>
COL_REQ_TIME_LOCAL ==
    <<"H","o","r","a"," ","d","a"," ","s","o","l","i","c","i","t","a","ç","ã","o"," ","(","l",
    "o","c","a","l",")">>
COL_NOME ==
    <<"N","o","m","e">>
COL_SOBRENOME ==
    <<"S","o","b","r","e","n","o","m","e">>
COL_NOME_COMPLETO ==
    <<"N","o","m","e"," ","C","o","m","p","l","e","t","o">>
COL_GRUPO ==
    <<"G","r","u","p","o">>
COL_SERVICO ==
    <<"S","e","r","v","i","ç","o">>
COL_CIDADE ==
    <<"C","i","d","a","d","e">>
COL_PAIS ==
    <<"P","a","í","s">>
COL_DIST ==
    <<"D","i","s","t","â","n","c","i","a"," ","(","m","i",")">>
COL_DUR ==
    <<"D","u","r","a","ç","ã","o"," ","(","m","i","n",")">>
COL_START ==
    <<"E","n","d","e","r","e","ç","o"," ","d","e"," ","p","a","r","t","i","d","a">>
COL_END ==
    <<"E","n","d","e","r","e","ç","o"," ","d","e"," ","d","e","s","t","i","n","o">>
COL_TOTAL ==
    <<"V","a","l","o","r"," ","t","o","t","a","l",":"," ","B","R","L">>
COL_STATUS ==
    <<"S","t","a","t","u","s"," ","d","e"," ","V","e","r","i","f","i","c","a","ç","ã","o">>
PENDENTE ==
    <<"P","e","n","d","e","n","t","e">>
ADMINISTRATIVO ==
    <<"A","D","M","I","N","I","S","T","R","A","T","I","V","O">>
COMERCIAL ==
    <<"C","O","M","E","R","C","I","A","L">>
HEADER_MARK ==
    <<"i","d"," ","d","a"," ","v","i","a","g","e","m","/","u","b","e","r"," ","e","a","t","s">>

----------------------------------------------------------------------------
(* Schemas *)

\* COLUMNS of the append variant, in the order of the pushed row
COLUMNS ==
    <<COL_ID, COL_TX_UTC, COL_ARR_DATE_UTC, COL_ARR_TIME_UTC, COL_ARR_DATE_LOCAL,
      COL_ARR_TIME_LOCAL, COL_NOME, COL_SOBRENOME, COL_GRUPO, COL_SERVICO, COL_CIDADE,
      COL_PAIS, COL_DIST, COL_DUR, COL_START, COL_END, COL_TOTAL, COL_STATUS>>

\* the keys of the object literal returned by the exclusion-filter transformer
STORE_KEYS ==
    <<COL_ID, COL_REQ_DATE_LOCAL, COL_REQ_TIME_LOCAL, COL_ARR_TIME_LOCAL, COL_NOME_COMPLETO,
      COL_GRUPO, COL_SERVICO, COL_CIDADE, COL_PAIS, COL_DIST, COL_DUR, COL_START, COL_END,
      COL_TOTAL>>

EXCLUDED_GROUPS == <<ADMINISTRATIVO, COMERCIAL>>

Range(s) == {s[i] : i \in 1..Len(s)}

\* Array.prototype.includes
Includes(arr, x) == \E i \in 1..Len(arr) : arr[i] = x

----------------------------------------------------------------------------
(* Record Transformer *)

\* trip[col] || ''  : a missing column and an empty value both give ''
Field(trip, col) == IF col \in DOMAIN trip /\ trip[col] # EMPTY THEN trip[col] ELSE EMPTY

\* trip[col]?.trim() || ''
TrimmedField(trip, col) == IF col \in DOMAIN trip THEN Trim(trip[col]) ELSE EMPTY

Excluded_NoTrim(trip) == Includes(EXCLUDED_GROUPS, Field(trip, COL_GRUPO))

\* the predicate of .filter(): TRUE when the record is dropped
Excluded(trip) == Includes(EXCLUDED_GROUPS, TrimmedField(trip, COL_GRUPO))

NomeCompleto_NoOuterTrim(trip) ==
    Concat(Concat(TrimmedField(trip, COL_NOME), <<" ">>), TrimmedField(trip, COL_SOBRENOME))

\* `${nome} ${sobrenome}`.trim()
NomeCompleto(trip) ==
    Trim(Concat(Concat(TrimmedField(trip, COL_NOME), <<" ">>), TrimmedField(trip, COL_SOBRENOME)))

ProjectStore_Spread(trip) ==
    [col \in Range(STORE_KEYS) \cup DOMAIN trip |->
        IF col = COL_NOME_COMPLETO THEN NomeCompleto(trip) ELSE Field(trip, col)]

\* the object literal of .map() in the exclusion-filter transformer
ProjectStore(trip) ==
    [col \in Range(STORE_KEYS) |->
        IF col = COL_NOME_COMPLETO THEN NomeCompleto(trip) ELSE Field(trip, col)]

ProjectSheets_KeepSource(trip) ==
    [col \in Range(COLUMNS) |->
        IF col = COL_STATUS /\ Field(trip, col) = EMPTY THEN PENDENTE ELSE Field(trip, col)]

\* the COLUMNS.forEach of the append transformer
ProjectSheets(trip) ==
    [col \in Range(COLUMNS) |-> IF col = COL_STATUS THEN PENDENTE ELSE Field(trip, col)]

\* Array.prototype.filter, keeping the records for which Drop is FALSE
RECURSIVE FilterOut(_, _)
FilterOut(trips, i) ==
    IF i > Len(trips) THEN <<>>
    ELSE IF Excluded(trips[i]) THEN FilterOut(trips, i + 1)
         ELSE <<trips[i]>> \o FilterOut(trips, i + 1)

filterTrips_Reversed(trips) ==
    LET kept == FilterOut(trips, 1)
    IN  [i \in 1..Len(kept) |-> ProjectStore(kept[Len(kept) + 1 - i])]

\* filterTrips of the document-store variants
filterTrips(trips) ==
    LET kept == FilterOut(trips, 1)
    IN  [i \in 1..Len(kept) |-> ProjectStore(kept[i])]

\* filterTrips of the append variant
filterTripsSheets(trips) == [i \in 1..Len(trips) |-> ProjectSheets(trips[i])]

Transform(v, trips) == IF v = "sheets" THEN filterTripsSheets(trips) ELSE filterTrips(trips)

----------------------------------------------------------------------------
(* Numbers: a JS number is <<mantissa, scale>> = mantissa / 10^scale, or NaN *)

NaN == <<"NaN">>

DIGITS == <<"0", "1", "2", "3", "4", "5", "6", "7", "8", "9">>

\* String(n) for n >= 0
RECURSIVE ToStr(_)
ToStr(n) == IF n < 10 THEN <<DIGITS[n + 1]>> ELSE Append(ToStr(n \div 10), DIGITS[(n % 10) + 1])

IsDigits(s) == \A i \in 1..Len(s) : Includes(DIGITS, s[i])

DigitVal(c) == (CHOOSE i \in 1..10 : DIGITS[i] = c) - 1

RECURSIVE DigitsValue(_)
DigitsValue(s) ==
    IF s = <<>> THEN 0 ELSE 10 * DigitsValue(SubSeq(s, 1, Len(s) - 1)) + DigitVal(s[Len(s)])

RECURSIVE Normal(_, _)
Normal(m, sc) == IF sc > 0 /\ m % 10 = 0 THEN Normal(m \div 10, sc - 1) ELSE <<m, sc>>

\* Number(s) for the decimal literals of the export: [-]digits[.digits]
Number(s) ==
    LET t    == Trim(s)
        neg  == t # <<>> /\ t[1] = "-"
        body == IF neg THEN Tail(t) ELSE t
        dots == {i \in 1..Len(body) : body[i] = "."}
        ip   == IF dots = {} THEN body ELSE SubSeq(body, 1, SetMin(dots) - 1)
        fp   == IF dots = {} THEN <<>> ELSE SubSeq(body, SetMin(dots) + 1, Len(body))
        mag  == Normal(DigitsValue(ip \o fp), Len(fp))
    IN  IF t = <<>> THEN <<0, 0>>
        ELSE IF Cardinality(dots) > 1 \/ ~IsDigits(ip) \/ ~IsDigits(fp) \/ ip \o fp = <<>>
             THEN NaN
             ELSE IF neg THEN <<0 - mag[1], mag[2]>> ELSE mag

\* x || 0
OrZero(x) == IF x = NaN \/ x[1] = 0 THEN <<0, 0>> ELSE x

\* String.prototype.replace(',', '.'): the first occurrence only
ReplaceFirstComma(s) ==
    LET at == {i \in 1..Len(s) : s[i] = ","}
    IN  IF at = {} THEN s ELSE [s EXCEPT ![SetMin(at)] = "."]

----------------------------------------------------------------------------
(* Sink Adapter: document store *)

BATCH_LIMIT == 500

NoTripId_Never(trip) == FALSE

\* !tripId
NoTripId(trip) == COL_ID \notin DOMAIN trip \/ trip[COL_ID] = EMPTY

\* the document written by saveTripsToFirestore
DocSingle(trip, t) ==
    [tripId |-> trip[COL_ID],
     requestDate |-> trip[COL_REQ_DATE_LOCAL],
     requestTime |-> trip[COL_REQ_TIME_LOCAL],
     arrivalTime |-> trip[COL_ARR_TIME_LOCAL],
     fullName |-> trip[COL_NOME_COMPLETO],
     group |-> trip[COL_GRUPO],
     service |-> trip[COL_SERVICO],
     city |-> trip[COL_CIDADE],
     country |-> trip[COL_PAIS],
     distanceMi |-> OrZero(Number(trip[COL_DIST])),
     durationMin |-> OrZero(Number(trip[COL_DUR])),
     originAddress |-> trip[COL_START],
     destinationAddress |-> trip[COL_END],
     totalValueBRL |-> OrZero(Number(ReplaceFirstComma(trip[COL_TOTAL]))),
     createdAt |-> t]

\* the document written by sendToFirestore
DocChunked(trip, t) ==
    [tripId |-> trip[COL_ID],
     requestDate |-> trip[COL_REQ_DATE_LOCAL],
     requestTime |-> trip[COL_REQ_TIME_LOCAL],
     arrivalTime |-> trip[COL_ARR_TIME_LOCAL],
     fullName |-> trip[COL_NOME_COMPLETO],
     group |-> trip[COL_GRUPO],
     service |-> trip[COL_SERVICO],
     city |-> trip[COL_CIDADE],
     country |-> trip[COL_PAIS],
     distance |-> trip[COL_DIST],
     duration |-> trip[COL_DUR],
     startAddress |-> trip[COL_START],
     endAddress |-> trip[COL_END],
     totalValue |-> trip[COL_TOTAL],
     createdAt |-> t,
     syncedAt |-> t]

\* batch.commit(): a promise over the writes the batch holds
Commit(ops) == [ops |-> ops, status |-> "pending"]

\* state of the loop of a sink: the one WriteBatch (its writes, whether commit() was
\* called on it), batchCount, the promises pushed to `batches`, and whether a call threw
NewBatch == [ops |-> <<>>, committed |-> FALSE, batchCount |-> 0, batches |-> <<>>, thrown |-> FALSE]

DocRef_AutoId(trip, t) == trip[COL_ID] \o <<"#">> \o ToStr(t)

\* db.collection(...).doc(tripId): the document is addressed by the trip id
DocRef(trip, t) == trip[COL_ID]

\* saveTripsToFirestore: one iteration of the for loop
StageSingle(st, trip, t) ==
    IF NoTripId(trip) THEN st
    ELSE [st EXCEPT !.ops = Append(@, [id |-> DocRef(trip, t), data |-> DocSingle(trip, t), merge |-> TRUE])]

\* sendToFirestore: one iteration of the for loop.  WriteBatch.set on a batch whose
\* commit() was already called throws, which ends the loop and the function.
StageChunked(st, trip, t) ==
    IF st.thrown \/ NoTripId(trip) THEN st
    ELSE IF st.committed THEN [st EXCEPT !.thrown = TRUE]
    ELSE LET ops == Append(st.ops, [id |-> DocRef(trip, t), data |-> DocChunked(trip, t), merge |-> FALSE])
         IN  IF st.batchCount + 1 = BATCH_LIMIT
             THEN [st EXCEPT !.ops = ops, !.committed = TRUE, !.batchCount = 0,
                             !.batches = Append(@, Commit(ops))]
             ELSE [st EXCEPT !.ops = ops, !.batchCount = @ + 1]

StageStep(v, st, trip, t) == IF v = "fs1" THEN StageSingle(st, trip, t) ELSE StageChunked(st, trip, t)

\* the for loop over trips[lo..hi]; the range is halved and the left half evaluated
\* first (the test on it is never true) to keep the evaluation shallow
RECURSIVE StageLoop(_, _, _, _, _, _)
StageLoop(v, trips, lo, hi, st, t) ==
    IF lo > hi THEN st
    ELSE IF lo = hi THEN StageStep(v, st, trips[lo], t)
    ELSE LET mid  == (lo + hi) \div 2
             left == StageLoop(v, trips, lo, mid, st, t)
         IN  IF left.batchCount < 0 THEN left ELSE StageLoop(v, trips, mid + 1, hi, left, t)

\* saveTripsToFirestore up to its await: every write in one batch, one commit
saveTripsToFirestore(trips, t) ==
    IF Len(trips) = 0 THEN NewBatch
    ELSE LET st == StageLoop("fs1", trips, 1, Len(trips), NewBatch, t)
         IN  [st EXCEPT !.committed = TRUE, !.batches = <<Commit(st.ops)>>]

\* sendToFirestore up to its await Promise.all(batches)
sendToFirestore(trips, t) ==
    IF Len(trips) = 0 THEN NewBatch
    ELSE LET st == StageLoop("fs2", trips, 1, Len(trips), NewBatch, t)
         IN  IF ~st.thrown /\ st.batchCount > 0
             THEN [st EXCEPT !.committed = TRUE, !.batchCount = 0, !.batches = Append(@, Commit(st.ops))]
             ELSE st

StageSink(v, trips, t) == IF v = "fs1" THEN saveTripsToFirestore(trips, t) ELSE sendToFirestore(trips, t)

\* the collection after a committed batch: per document the last write of the batch
\* wins; with merge the fields it does not name are kept
ApplyCommit(coll, ops) ==
    LET ids      == {ops[i].id : i \in 1..Len(ops)}
        last(id) == ops[SetMax({i \in 1..Len(ops) : ops[i].id = id})]
        write(id) ==
            LET w == last(id)
            IN  IF w.merge /\ id \in DOMAIN coll
                THEN [k \in DOMAIN coll[id] \cup DOMAIN w.data |->
                        IF k \in DOMAIN w.data THEN w.data[k] ELSE coll[id][k]]
                ELSE w.data
    IN  [id \in DOMAIN coll \cup ids |-> IF id \in ids THEN write(id) ELSE coll[id]]

----------------------------------------------------------------------------
(* Sink Adapter: append *)

\* trips.map((t) => COLUMNS.map((c) => t[c] || ''))
SheetValues(trips) ==
    [i \in 1..Len(trips) |-> [j \in 1..Len(COLUMNS) |-> Field(trips[i], COLUMNS[j])]]

----------------------------------------------------------------------------
(* File Locator *)

FILE_PREFIX ==
    <<"d","a","i","l","y","_","t","r","i","p","s","-">>
FILE_SUFFIX ==
    <<".","c","s","v">>
OTHER_NAME ==
    <<"r","e","a","d","m","e",".","t","x","t">>

IsLeap(y) == (y % 4 = 0 /\ y % 100 # 0) \/ y % 400 = 0

DaysInMonth(y, m) ==
    IF m = 2 THEN (IF IsLeap(y) THEN 29 ELSE 28)
    ELSE IF m \in {4, 6, 9, 11} THEN 30 ELSE 31

\* d.setDate(d.getDate() - 1) on the local calendar fields [y, m, d]
Yesterday(date) ==
    IF date.d > 1 THEN [date EXCEPT !.d = @ - 1]
    ELSE IF date.m > 1 THEN [y |-> date.y, m |-> date.m - 1, d |-> DaysInMonth(date.y, date.m - 1)]
    ELSE [y |-> date.y - 1, m |-> 12, d |-> 31]

Pad2_None(n) == ToStr(n)

\* String(n).padStart(2, '0')
Pad2(n) == LET s == ToStr(n) IN IF Len(s) < 2 THEN <<"0">> \o s ELSE s

\* getYesterdayFileName, with new Date() = date
getYesterdayFileName(date) ==
    LET y == Yesterday(date)
    IN  FILE_PREFIX \o ToStr(y.y) \o <<"_">> \o Pad2(y.m) \o <<"_">> \o Pad2(y.d) \o FILE_SUFFIX


----------------------------------------------------------------------------
(* Tabular Ingester *)

UPPER == <<"A","B","C","D","E","F","G","H","I","J","K","L","M","N","O","P","Q","R","S","T","U","V","W","X","Y","Z">>

LOWER == <<"a","b","c","d","e","f","g","h","i","j","k","l","m","n","o","p","q","r","s","t","u","v","w","x","y","z">>

ToLowerChar(c) == IF Includes(UPPER, c) THEN LOWER[CHOOSE i \in 1..26 : UPPER[i] = c] ELSE c

ToUpperChar(c) == IF Includes(LOWER, c) THEN UPPER[CHOOSE i \in 1..26 : LOWER[i] = c] ELSE c

\* String.prototype.toLowerCase
ToLowerCase(s) == [i \in 1..Len(s) |-> ToLowerChar(s[i])]

ToUpperCase(s) == [i \in 1..Len(s) |-> ToUpperChar(s[i])]

FindFile_IgnoreCase(files, target) == \E f \in files : ToLowerCase(f) = ToLowerCase(target)

\* files.find((f) => f.name === target)
FindFile(files, target) == target \in files

\* String.prototype.includes
StrIncludes(s, sub) ==
    \E i \in 1..(Len(s) - Len(sub) + 1) : SubSeq(s, i, i + Len(sub) - 1) = sub

\* content.split('\n'): the lines as <<first, last>> index pairs (last < first when empty)
LineBounds(content) ==
    LET nl    == {i \in 1..Len(content) : content[i] = "\n"}
        cuts  == nl \cup {0, Len(content) + 1}
        next(i) == SetMin({j \in cuts : j > i})
        starts == {i \in cuts : i <= Len(content)}
        order(k) == CHOOSE i \in starts : Cardinality({j \in starts : j < i}) = k - 1
    IN  [k \in 1..Cardinality(starts) |-> <<order(k) + 1, next(order(k)) - 1>>]

\* lines.findIndex(...): 0 stands for -1
HeaderIndex(content) ==
    LET lines == LineBounds(content)
        hit   == {k \in 1..Len(lines) :
                    StrIncludes(ToLowerCase(SubSeq(content, lines[k][1], lines[k][2])), HEADER_MARK)}
    IN  IF hit = {} THEN 0 ELSE SetMin(hit)

FromHeader_Whole(content) == content

\* lines.slice(headerIndex).join('\n')
FromHeader(content) ==
    SubSeq(content, LineBounds(content)[HeaderIndex(content)][1], Len(content))

\* csv-parse, options {columns: true, delimiter: ';', skip_empty_lines: true, trim: true},
\* on text whose records end with "\n".  State of the parser between two characters.
NewParser ==
    [record |-> <<>>, field |-> <<>>, quoting |-> FALSE, wasQuoting |-> FALSE, skip |-> FALSE,
     header |-> <<>>, hasHeader |-> FALSE, records |-> <<>>, err |-> "none"]

\* rtrim of an unquoted field
RTrim(s) ==
    LET keep == {i \in 1..Len(s) : s[i] \notin WS}
    IN  IF keep = {} THEN EMPTY ELSE SubSeq(s, 1, SetMax(keep))

\* the object built from the header and one record: a repeated column keeps its last value
ToObject(header, rec) ==
    [k \in Range(header) |-> rec[SetMax({j \in 1..Len(header) : header[j] = k})]]

EndField(p) ==
    [p EXCEPT !.record = Append(@, IF p.wasQuoting THEN p.field ELSE RTrim(p.field)),
              !.field = <<>>, !.wasQuoting = FALSE]

EndRecord_Relaxed(p) ==
    IF ~p.wasQuoting /\ p.record = <<>> /\ p.field = <<>> THEN p
    ELSE LET q == EndField(p)
         IN  IF ~q.hasHeader
             THEN [q EXCEPT !.header = q.record, !.hasHeader = TRUE, !.record = <<>>]
             ELSE IF Len(q.record) # Len(q.header) THEN [q EXCEPT !.record = <<>>]
             ELSE [q EXCEPT !.records = Append(@, ToObject(q.header, q.record)), !.record = <<>>]

\* end of a line: an empty line is skipped, the first record names the columns, a record
\* whose length differs from the header's is an error
EndRecord(p) ==
    IF ~p.wasQuoting /\ p.record = <<>> /\ p.field = <<>> THEN p
    ELSE LET q == EndField(p)
         IN  IF ~q.hasHeader
             THEN [q EXCEPT !.header = q.record, !.hasHeader = TRUE, !.record = <<>>]
             ELSE IF Len(q.record) # Len(q.header)
             THEN [q EXCEPT !.err = "CSV_RECORD_INCONSISTENT_COLUMNS"]
             ELSE [q EXCEPT !.records = Append(@, ToObject(q.header, q.record)), !.record = <<>>]

\* one character of the input
ParseChar(p, text, i) ==
    LET c   == text[i]
        nxt == IF i < Len(text) THEN text[i + 1] ELSE "EOF"
    IN  IF p.err # "none" THEN p
        ELSE IF p.skip THEN [p EXCEPT !.skip = FALSE]
        ELSE IF p.quoting
        THEN IF c # "\"" THEN [p EXCEPT !.field = Append(@, c)]
             ELSE IF nxt = "\"" THEN [p EXCEPT !.field = Append(@, c), !.skip = TRUE]
             ELSE IF nxt \in {"EOF", ";", "\n"} \cup WS
                  THEN [p EXCEPT !.quoting = FALSE, !.wasQuoting = TRUE]
                  ELSE [p EXCEPT !.err = "CSV_INVALID_CLOSING_QUOTE"]
        ELSE IF c = "\"" THEN IF p.field = <<>> /\ ~p.wasQuoting
                               THEN [p EXCEPT !.quoting = TRUE]
                               ELSE [p EXCEPT !.err = "INVALID_OPENING_QUOTE"]
        ELSE IF c = "\n" THEN EndRecord(p)
        ELSE IF c = ";" THEN EndField(p)
        ELSE IF p.wasQuoting THEN IF c \in WS THEN p
                                  ELSE [p EXCEPT !.err = "CSV_NON_TRIMABLE_CHAR_AFTER_CLOSING_QUOTE"]
        ELSE IF c \in WS /\ p.field = <<>> THEN p
        ELSE [p EXCEPT !.field = Append(@, c)]

\* the characters text[lo..hi] in order; the range is halved and the left half evaluated
\* first (the test on it is never true) to keep the evaluation shallow
RECURSIVE ParseRange(_, _, _, _)
ParseRange(text, lo, hi, p) ==
    IF lo > hi THEN p
    ELSE IF lo = hi THEN ParseChar(p, text, lo)
    ELSE LET mid  == (lo + hi) \div 2
             left == ParseRange(text, lo, mid, p)
         IN  IF left.err = "" THEN left ELSE ParseRange(text, mid + 1, hi, left)

\* parse(text, options): [err, records]
Parse(text) ==
    LET p == ParseRange(text, 1, Len(text), NewParser)
        q == IF p.err # "none" THEN p
             ELSE IF p.quoting THEN [p EXCEPT !.err = "CSV_QUOTE_NOT_CLOSED"]
             ELSE EndRecord(p)
    IN  [err |-> q.err, records |-> IF q.err = "none" THEN q.records ELSE <<>>]

\* processCSVFile after the download: [err, records]
processCSVFile(content) ==
    IF HeaderIndex(content) = 0 THEN [err |-> "none", records |-> <<>>]
    ELSE Parse(FromHeader(content))

CONTENT_ONE ==
    <<"R","e","l","a","t","ó","r","i","o"," ","g","e","r","a","d","o"," ","e","m"," ","2","0",
    "2","4","-","0","1","-","0","1","\n","I","D"," ","d","a"," ","v","i","a","g","e","m","/",
    "U","b","e","r"," ","E","a","t","s",";","N","o","m","e",";","S","o","b","r","e","n","o","m",
    "e",";","G","r","u","p","o","\n","T","1",";","A","n","a",";","S","i","l","v","a",";","O",
    "P","E","R","A","C","I","O","N","A","L","\n">>
CONTENT_ADMIN ==
    <<"R","e","l","a","t","ó","r","i","o"," ","g","e","r","a","d","o"," ","e","m"," ","2","0",
    "2","4","-","0","1","-","0","1","\n","I","D"," ","d","a"," ","v","i","a","g","e","m","/",
    "U","b","e","r"," ","E","a","t","s",";","N","o","m","e",";","S","o","b","r","e","n","o","m",
    "e",";","G","r","u","p","o","\n","T","1",";","A","n","a",";","S","i","l","v","a",";","A",
    "D","M","I","N","I","S","T","R","A","T","I","V","O","\n">>
CONTENT_MIXED ==
    <<"I","D"," ","d","a"," ","v","i","a","g","e","m","/","U","b","e","r"," ","E","a","t","s",
    ";","N","o","m","e",";","S","o","b","r","e","n","o","m","e",";","G","r","u","p","o","\n",
    "T","1",";","A","n","a",";","S","i","l","v","a",";","O","P","E","R","A","C","I","O","N","A",
    "L","\n",";","R","u","i",";",";","C","O","M","E","R","C","I","A","L","\n","T","1",";"," ",
    "B","i","a"," ",";","R","e","i","s",";","\n",";","E","d","u",";","L","u","z",";","V","E",
    "N","D","A","S">>
CONTENT_HEADER_ONLY ==
    <<"I","D"," ","d","a"," ","v","i","a","g","e","m","/","U","b","e","r"," ","E","a","t","s",
    ";","N","o","m","e",";","S","o","b","r","e","n","o","m","e",";","G","r","u","p","o","\n">>
CONTENT_NO_HEADER ==
    <<"R","e","l","a","t","ó","r","i","o"," ","g","e","r","a","d","o"," ","e","m"," ","2","0",
    "2","4","-","0","1","-","0","1","\n","s","e","m"," ","v","i","a","g","e","n","s","\n">>
CONTENT_BAD_COLUMNS ==
    <<"I","D"," ","d","a"," ","v","i","a","g","e","m","/","U","b","e","r"," ","E","a","t","s",
    ";","N","o","m","e",";","S","o","b","r","e","n","o","m","e",";","G","r","u","p","o","\n",
    "T","1",";","A","n","a",";","S","i","l","v","a","\n">>
CONTENT_BAD_QUOTE ==
    <<"I","D"," ","d","a"," ","v","i","a","g","e","m","/","U","b","e","r"," ","E","a","t","s",
    ";","N","o","m","e",";","S","o","b","r","e","n","o","m","e",";","G","r","u","p","o","\n",
    "T","1",";","\"","A","n","a",";","S","i","l","v","a",";","O","P","E","R","A","C","I","O",
    "N","A","L","\n">>

----------------------------------------------------------------------------
(* The process: main() and the runs of syncUberTrips *)

Variants == {"sheets", "fs1", "fs2"}

StoreVariants == {"fs1", "fs2"}

RunDates == {[y |-> 2024, m |-> 3, d |-> 1]}

Contents ==
    {CONTENT_ONE, CONTENT_ADMIN, CONTENT_MIXED, CONTENT_HEADER_ONLY, CONTENT_NO_HEADER,
     CONTENT_BAD_COLUMNS, CONTENT_BAD_QUOTE}

\* the directory listings tried for a target name
Listings(target) ==
    {{}, {target}, {OTHER_NAME, ToUpperCase(target)}, {OTHER_NAME, target}}

Envs == [username : BOOLEAN, privateKey : BOOLEAN, serviceAccount : BOOLEAN, runOnStart : BOOLEAN]

\* no response of the endpoint yet
NoResponse == [status |-> 0, statusText |-> EMPTY]

\* a run right after `new SftpClient()`: found is the count the run logs after
\* filterTrips (-1 before), message the text of the Error thrown by the sink
NewRun(kind) ==
    [kind |-> kind, pc |-> "connect", session |-> "none", target |-> EMPTY, files |-> {},
     batches |-> <<>>, resp |-> "none", res |-> NoResponse, err |-> FALSE, message |-> "none",
     outcome |-> "none", gets |-> 0, found |-> -1]

Alive == exitCode = -1

InFlight(r) == runs[r].pc # "done"

Exit(code) == mainPc' = "exited" /\ exitCode' = code

NoTest == UNCHANGED <<tin, tout, snap>>

NoOutput ==
    [done |-> FALSE, out |-> <<>>, err |-> "none", staged |-> FALSE, batches |-> <<>>,
     values |-> <<>>]

NoSnap == [taken |-> FALSE, coll |-> <<>>]

Init ==
    /\ variant \in Variants
    /\ env \in Envs
    /\ mainPc = "load"
    /\ exitCode = -1
    /\ runs = <<>>
    /\ store = <<>>
    /\ requests = <<>>
    /\ now = 0
    /\ tin = <<>>
    /\ tout = NoOutput
    /\ snap = NoSnap

\* module evaluation, before main() is called: the Firestore client is built from
\* FIREBASE_SERVICE_ACCOUNT.  firebase.ts throws when it is not set; part_002 hands
\* cert() an empty object, which the library may reject.
LoadModule ==
    /\ mainPc = "load"
    /\ \/ /\ variant \in StoreVariants /\ ~env.serviceAccount
          /\ Exit(1)
       \/ /\ variant = "sheets" \/ env.serviceAccount \/ variant = "fs2"
          /\ mainPc' = "validate" /\ UNCHANGED exitCode
    /\ UNCHANGED <<variant, env, runs, store, requests, now>> /\ NoTest

ConfigOk_None == TRUE

\* the credential checks at the top of main()
ConfigOk ==
    /\ env.username /\ env.privateKey
    /\ variant = "fs2" => env.serviceAccount

Validate ==
    /\ mainPc = "validate"
    /\ IF ConfigOk THEN mainPc' = "start" /\ UNCHANGED exitCode ELSE Exit(1)
    /\ UNCHANGED <<variant, env, runs, store, requests, now>> /\ NoTest

\* if (process.env.RUN_ON_START === 'true') await syncUberTrips()
StartInitial ==
    /\ mainPc = "start"
    /\ IF env.runOnStart
       THEN mainPc' = "initial" /\ runs' = Append(runs, NewRun("initial"))
       ELSE mainPc' = "schedule" /\ UNCHANGED runs
    /\ UNCHANGED <<variant, env, exitCode, store, requests, now>> /\ NoTest

\* whether main() wraps the initial run in try/catch
InitialCaught == variant # "fs1"

InitialDone_NoAwait ==
    /\ mainPc = "initial"
    /\ IF runs[1].outcome = "failed" /\ ~InitialCaught
       THEN Exit(1)
       ELSE mainPc' = "schedule" /\ UNCHANGED exitCode
    /\ UNCHANGED <<variant, env, runs, store, requests, now>> /\ NoTest

\* the initial run has returned or thrown
InitialDone ==
    /\ mainPc = "initial"
    /\ runs[1].pc = "done"
    /\ IF runs[1].outcome = "failed" /\ ~InitialCaught
       THEN Exit(1)
       ELSE mainPc' = "schedule" /\ UNCHANGED exitCode
    /\ UNCHANGED <<variant, env, runs, store, requests, now>> /\ NoTest

\* cron.schedule(CRON_SCHEDULE, callback)
Schedule ==
    /\ mainPc = "schedule"
    /\ mainPc' = "waiting"
    /\ UNCHANGED <<variant, env, exitCode, runs, store, requests, now>> /\ NoTest

\* a match of the cron expression: the scheduler calls the callback, which starts a run;
\* neither the callback nor the options passed to cron.schedule look at earlier calls
CronTick ==
    /\ mainPc = "waiting"
    /\ Len(runs) < MaxRuns
    /\ runs' = Append(runs, NewRun("cron"))
    /\ now' = now + 1
    /\ UNCHANGED <<variant, env, mainPc, exitCode, store, requests>> /\ NoTest

\* SIGTERM or SIGINT once main() has registered its handlers: process.exit(0)
Signal ==
    /\ mainPc = "waiting" /\ variant # "fs1"
    /\ Exit(0)
    /\ UNCHANGED <<variant, env, runs, store, requests, now>> /\ NoTest

SetRun(r, rec) == runs' = [runs EXCEPT ![r] = rec]

ToEnd_Retry(run, failed) == [run EXCEPT !.pc = IF failed THEN "connect" ELSE "end", !.err = FALSE]

\* to the finally block, with the exception (if any) pending
ToEnd(run, failed) == [run EXCEPT !.pc = "end", !.err = failed]

\* the client connects or not; without a username or a private key it cannot
ConnectResults == IF env.username /\ env.privateKey THEN BOOLEAN ELSE {FALSE}

\* await sftp.connect(SFTP_CONFIG)
Connect(r) ==
    /\ Alive /\ runs[r].pc = "connect"
    /\ \E ok \in ConnectResults :
         SetRun(r, IF ok THEN [runs[r] EXCEPT !.pc = "list", !.session = "open"]
                   ELSE ToEnd(runs[r], TRUE))
    /\ UNCHANGED <<variant, env, mainPc, exitCode, store, requests, now>> /\ NoTest

\* await sftp.list(...), then the search for the target name
List(r) ==
    /\ Alive /\ runs[r].pc = "list"
    /\ \/ SetRun(r, ToEnd(runs[r], TRUE))
       \/ \E date \in RunDates :
            LET target == getYesterdayFileName(date)
            IN  \E files \in Listings(target) :
                  SetRun(r, IF FindFile(files, target)
                            THEN [runs[r] EXCEPT !.pc = "get", !.target = target, !.files = files]
                            ELSE [ToEnd(runs[r], FALSE) EXCEPT !.outcome = "notfound",
                                        !.target = target, !.files = files])
    /\ UNCHANGED <<variant, env, mainPc, exitCode, store, requests, now>> /\ NoTest

\* processCSVFile and filterTrips on each content, evaluated once
Ingested == [c \in Contents |-> processCSVFile(c)]

Transformed == [v \in Variants |-> [c \in Contents |-> Transform(v, Ingested[c].records)]]

\* the sink has staged its writes: it threw while staging, or it awaits its commits
Staged(run, st) ==
    IF st.thrown THEN [ToEnd(run, TRUE) EXCEPT !.batches = st.batches]
    ELSE [run EXCEPT !.pc = "deliver", !.batches = st.batches]

SinkCall_NoGuard(run, trips) ==
    IF variant = "sheets" THEN [run EXCEPT !.pc = "deliver", !.resp = "pending"]
    ELSE Staged(run, StageSink(variant, trips, now))

\* the call of the sink up to its first await, in a run holding the transformed trips
SinkCall(run, trips) ==
    IF Len(trips) = 0 THEN ToEnd(run, FALSE)
    ELSE IF variant = "sheets" THEN [run EXCEPT !.pc = "deliver", !.resp = "pending"]
    ELSE Staged(run, StageSink(variant, trips, now))

\* the run once processCSVFile has returned or thrown: a parse error is thrown to the
\* catch block, otherwise the transformed trips are handed to the sink
Processed(run, parsed, trips) ==
    IF parsed.err # "none" THEN ToEnd(run, TRUE)
    ELSE SinkCall([run EXCEPT !.found = Len(trips)], trips)

\* the run from the end of the download to the first await of the sink
AfterDownload(r, content) ==
    Processed([runs[r] EXCEPT !.gets = @ + 1, !.target = EMPTY, !.files = {}],
              Ingested[content], Transformed[variant][content])

\* the run goes on as `next`; a POST of the trips is in flight when the sink awaits fetch
Downloaded(r, next, trips) ==
    /\ SetRun(r, next)
    /\ requests' = IF next.resp = "pending"
                   THEN Append(requests, [run |-> r, values |-> SheetValues(trips)])
                   ELSE requests

\* await sftp.get(remotePath), parsing, filterTrips and the synchronous part of the sink
Get(r) ==
    /\ Alive /\ runs[r].pc = "get"
    /\ \/ SetRun(r, ToEnd(runs[r], TRUE)) /\ UNCHANGED requests
       \/ \E content \in Contents :
            Downloaded(r, AfterDownload(r, content), Transformed[variant][content])
    /\ UNCHANGED <<variant, env, mainPc, exitCode, store, now>> /\ NoTest

\* the store settles a submitted batch: all of its writes are applied, or none
CommitSettle(r, i) ==
    /\ runs[r].batches[i].status = "pending"
    /\ \E ok \in BOOLEAN :
         /\ SetRun(r, [runs[r] EXCEPT !.batches[i].status = IF ok THEN "ok" ELSE "failed"])
         /\ store' = IF ok THEN ApplyCommit(store, runs[r].batches[i].ops) ELSE store
    /\ UNCHANGED <<variant, env, mainPc, exitCode, requests, now>> /\ NoTest

TEXT_OK ==
    <<"O","K">>
TEXT_NOT_FOUND ==
    <<"N","o","t"," ","F","o","u","n","d">>
SHEETS_ERROR ==
    <<"S","h","e","e","t","s"," ","A","P","I"," ","e","r","r","o","r",":"," ">>

\* the responses the endpoint gives
Responses ==
    {[status |-> 200, statusText |-> TEXT_OK], [status |-> 404, statusText |-> TEXT_NOT_FOUND]}

ResOk_NotServerError(res) == res.status < 500

\* Response.ok
ResOk(res) == res.status \in 200..299

\* `Sheets API error: ${res.status} ${res.statusText}`
SheetsError(res) == SHEETS_ERROR \o ToStr(res.status) \o <<" ">> \o res.statusText

\* the endpoint answers the POST
SheetsRespond(r) ==
    /\ runs[r].resp = "pending"
    /\ \E res \in Responses :
         SetRun(r, [runs[r] EXCEPT !.res = res, !.resp = IF ResOk(res) THEN "ok" ELSE "fail"])
    /\ UNCHANGED <<variant, env, mainPc, exitCode, store, requests, now>> /\ NoTest

AnyFailed(batches) == \E i \in 1..Len(batches) : batches[i].status = "failed"

AllOk(batches) == \A i \in 1..Len(batches) : batches[i].status = "ok"

SinkSettled_NoAwait(run) == TRUE

SinkSettled_Never(run) == FALSE

\* the awaited promise of the sink is settled: Promise.all is rejected with the first
\* rejection and fulfilled when every promise is
SinkSettled(run) ==
    IF variant = "sheets" THEN run.resp \in {"ok", "fail"}
    ELSE AnyFailed(run.batches) \/ AllOk(run.batches)

SinkRejected_Ignored(run) == FALSE

\* the await throws: !res.ok, or a rejected commit
SinkRejected(run) == IF variant = "sheets" THEN run.resp = "fail" ELSE AnyFailed(run.batches)

\* the text of the Error sendToGoogleSheets throws on a response that is not ok
Thrown(run) ==
    IF variant = "sheets" /\ run.resp = "fail" THEN SheetsError(run.res) ELSE run.message

\* the await of fetch / batch.commit() / Promise.all(batches) returns or throws
AwaitSink(r) ==
    /\ Alive /\ runs[r].pc = "deliver"
    /\ SinkSettled(runs[r])
    /\ SetRun(r, [ToEnd(runs[r], SinkRejected(runs[r])) EXCEPT !.message = Thrown(runs[r])])
    /\ UNCHANGED <<variant, env, mainPc, exitCode, store, requests, now>> /\ NoTest

Outcome(run) ==
    IF run.err THEN "failed" ELSE IF run.outcome = "notfound" THEN "notfound" ELSE "delivered"

Closed_OnSuccessOnly(run) == IF run.err THEN run.session ELSE "closed"

\* the session after `finally { await sftp.end() }`
Closed(run) == "closed"

\* the finally block, then the return or rethrow of syncUberTrips
End(r) ==
    /\ Alive /\ runs[r].pc = "end"
    /\ SetRun(r, [runs[r] EXCEPT !.pc = "done", !.session = Closed(runs[r]),
                                 !.outcome = Outcome(runs[r])])
    /\ UNCHANGED <<variant, env, mainPc, exitCode, store, requests, now>> /\ NoTest

Next ==
    \/ LoadModule
    \/ Validate
    \/ StartInitial
    \/ InitialDone
    \/ Schedule
    \/ CronTick
    \/ Signal
    \/ \E r \in 1..Len(runs) : Connect(r)
    \/ \E r \in 1..Len(runs) : List(r)
    \/ \E r \in 1..Len(runs) : Get(r)
    \/ \E r \in 1..Len(runs) : \E i \in 1..Len(runs[r].batches) : CommitSettle(r, i)
    \/ \E r \in 1..Len(runs) : SheetsRespond(r)
    \/ \E r \in 1..Len(runs) : AwaitSink(r)
    \/ \E r \in 1..Len(runs) : End(r)

Spec == Init /\ [][Next]_vars

\* the steps of run r: its awaited calls and the answers of the store and the endpoint
RunNext(r) ==
    /\ r \in 1..Len(runs)
    /\ \/ Connect(r) \/ List(r) \/ Get(r) \/ AwaitSink(r) \/ End(r)
       \/ SheetsRespond(r)
       \/ \E i \in 1..Len(runs[r].batches) : CommitSettle(r, i)

\* every awaited call of a run eventually returns or throws, and the event loop then
\* resumes the run; nothing is assumed about the triggers and the signals
\* the process with at most MaxLiveRuns runs started
NextLive == Next /\ Len(runs') <= MaxLiveRuns

SpecLive == Init /\ [][NextLive]_vars /\ \A r \in 1..MaxLiveRuns : WF_vars(RunNext(r))

----------------------------------------------------------------------------
(* The transformer and the staging of the sink on arbitrary record sequences *)

ABSENT == <<"absent">>

EXTRA_COL == <<"N","o","t","a">>

GroupValues ==
    {ABSENT, EMPTY, ADMINISTRATIVO, COMERCIAL, <<" ">> \o ADMINISTRATIVO \o <<" ">>,
     ToLowerCase(ADMINISTRATIVO), <<"V","E","N","D","A","S">>}

\* a source row with every kind of column: copied, derived from, numeric, constant, unknown
FullRow ==
    (COL_ID :> <<"T","1">>) @@ (COL_NOME :> <<" ","A","n","a"," ">>)
    @@ (COL_SOBRENOME :> <<"S","i","l","v","a">>) @@ (COL_DIST :> <<"3",".","5">>)
    @@ (COL_TOTAL :> <<"1","2",",","5","0">>) @@ (COL_STATUS :> <<"O","K">>)
    @@ (EXTRA_COL :> <<"x">>)

\* rows with one of the two names missing or blank
NameRows ==
    {(COL_ID :> <<"T","2">>) @@ (COL_NOME :> <<"A","n","a">>),
     (COL_ID :> <<"T","3">>) @@ (COL_SOBRENOME :> <<" ","S","i","l","v","a">>),
     (COL_ID :> <<"T","4">>) @@ (COL_NOME :> <<" "," ">>) @@ (COL_SOBRENOME :> <<"d","a"," ","L","u","z">>),
     (COL_ID :> <<"T","5">>) @@ (COL_NOME :> <<" ">>) @@ (COL_SOBRENOME :> EMPTY)}

RawRecords ==
    {IF g = ABSENT THEN FullRow ELSE (COL_GRUPO :> g) @@ FullRow : g \in GroupValues}
    \cup {IF g = ABSENT THEN <<>> ELSE (COL_GRUPO :> g) : g \in GroupValues}
    \cup NameRows

Idle(v) ==
    /\ variant \in v
    /\ env = [username |-> TRUE, privateKey |-> TRUE, serviceAccount |-> TRUE, runOnStart |-> FALSE]
    /\ mainPc = "waiting"
    /\ exitCode = -1
    /\ runs = <<>>
    /\ store = <<>>
    /\ requests = <<>>
    /\ now = 0
    /\ tout = NoOutput
    /\ snap = NoSnap

InitTransform ==
    /\ Idle(Variants)
    /\ tin \in UNION {[1..n -> RawRecords] : n \in 0..MaxLen}

\* const filtered = filterTrips(trips)
DoTransform ==
    /\ ~tout.done
    /\ tout' = [tout EXCEPT !.done = TRUE, !.out = Transform(variant, tin)]
    /\ UNCHANGED <<variant, env, mainPc, exitCode, runs, store, requests, now, tin, snap>>

\* the sink on the transformed records, up to its first await
DoStage ==
    /\ tout.done /\ ~tout.staged
    /\ tout' = [tout EXCEPT !.staged = TRUE,
                  !.batches = IF variant = "sheets" THEN <<>> ELSE StageSink(variant, tout.out, now).batches,
                  !.values = IF variant = "sheets" /\ Len(tout.out) > 0 THEN SheetValues(tout.out) ELSE <<>>]
    /\ UNCHANGED <<variant, env, mainPc, exitCode, runs, store, requests, now, tin, snap>>

NextTransform == DoTransform \/ DoStage

SpecTransform == InitTransform /\ [][NextTransform]_vars

----------------------------------------------------------------------------
(* The document-store sink on long record sequences, submitted once and again *)

Patterns == {"distinct", "gaps", "dups"}

\* the i-th projected record of a generated sequence
GenTrip(i, pat) ==
    [col \in Range(STORE_KEYS) |->
        IF col = COL_ID
        THEN (IF pat = "gaps" /\ i % 3 = 0 THEN EMPTY
              ELSE IF pat = "dups" THEN ToStr(i % 2) ELSE ToStr(i))
        ELSE IF col = COL_DIST THEN ToStr(i % 10) ELSE EMPTY]

GenTrips(n, pat) == [i \in 1..n |-> GenTrip(i, pat)]

TripCounts ==
    {n \in 0..MaxTrips :
        \/ n <= 3
        \/ n \in {BATCH_LIMIT - 1, BATCH_LIMIT, BATCH_LIMIT + 1}
        \/ n = MaxTrips}

InitSink ==
    /\ Idle(StoreVariants)
    /\ tin \in {GenTrips(n, pat) : n \in TripCounts, pat \in Patterns}

\* a run reaches the sink with tin as its transformed records; the second submission
\* starts after the first has returned
Submit ==
    /\ Alive /\ Len(runs) < 2
    /\ \A r \in 1..Len(runs) : ~InFlight(r)
    /\ runs' = Append(runs, SinkCall([NewRun("cron") EXCEPT !.session = "open"], tin))
    /\ snap' = IF Len(runs) = 1 THEN [taken |-> TRUE, coll |-> store] ELSE snap
    /\ UNCHANGED <<variant, env, mainPc, exitCode, store, requests, now, tin, tout>>

\* time passes
Tick ==
    /\ now < MaxClock
    /\ now' = now + 1
    /\ UNCHANGED <<variant, env, mainPc, exitCode, runs, store, requests, tin, tout, snap>>

NextSink ==
    \/ Submit
    \/ Tick
    \/ \E r \in 1..Len(runs) : \E i \in 1..Len(runs[r].batches) : CommitSettle(r, i)
    \/ \E r \in 1..Len(runs) : AwaitSink(r)
    \/ \E r \in 1..Len(runs) : End(r)

SpecSink == InitSink /\ [][NextSink]_vars

----------------------------------------------------------------------------
(* The ingester on file texts built from banner lines, a header line and rows *)

MaxBanners == 2

MaxRows == 2

BANNER_TEXT ==
    <<"R","e","l","a","t","ó","r","i","o",";","2","0","2","4">>
HEADER_PLAIN ==
    <<"I","D"," ","d","a"," ","v","i","a","g","e","m","/","U","b","e","r"," ","E","a","t","s",
    ";","N","o","m","e",";","G","r","u","p","o">>
HEADER_UPPER ==
    <<"I","D"," ","D","A"," ","V","I","A","G","E","M","/","U","B","E","R"," ","E","A","T","S",
    ";","N","o","m","e",";","G","r","u","p","o">>
ROW_PLAIN ==
    <<"T","1",";","A","n","a",";","V","E","N","D","A","S">>
ROW_SPACES ==
    <<"T","2",";"," ","R","u","i"," ",";">>
ROW_QUOTED ==
    <<"\"","a",";","b","\"",";","\"","x","\"","\"","y","\"",";">>
ROW_SHORT ==
    <<"T","3",";","A","n","a">>
ROW_OPEN_QUOTE ==
    <<"T","4",";","\"","A","n","a",";","V","E","N","D","A","S">>
COL_ID_UPPER ==
    <<"I","D"," ","D","A"," ","V","I","A","G","E","M","/","U","B","E","R"," ","E","A","T","S">>

\* lines before the header: text (with a delimiter in it) or an empty line
BannerLines == {BANNER_TEXT, EMPTY}

NoHeaderLine == [present |-> FALSE, text |-> EMPTY, names |-> <<>>]

\* the header line, with the names it declares
HeaderLines ==
    {NoHeaderLine,
     [present |-> TRUE, text |-> HEADER_PLAIN, names |-> <<COL_ID, COL_NOME, COL_GRUPO>>],
     [present |-> TRUE, text |-> HEADER_UPPER, names |-> <<COL_ID_UPPER, COL_NOME, COL_GRUPO>>]}

\* data rows of three fields with the values they hold, and two malformed rows
RowLines ==
    {[text |-> ROW_PLAIN, ok |-> TRUE,
      values |-> <<<<"T","1">>, <<"A","n","a">>, <<"V","E","N","D","A","S">>>>],
     [text |-> ROW_SPACES, ok |-> TRUE, values |-> <<<<"T","2">>, <<"R","u","i">>, EMPTY>>],
     [text |-> ROW_QUOTED, ok |-> TRUE,
      values |-> <<<<"a",";","b">>, <<"x","\"","y">>, EMPTY>>],
     [text |-> ROW_SHORT, ok |-> FALSE, values |-> <<>>],
     [text |-> ROW_OPEN_QUOTE, ok |-> FALSE, values |-> <<>>]}

\* lines.join('\n')
RECURSIVE JoinLines(_)
JoinLines(lines) ==
    IF lines = <<>> THEN EMPTY
    ELSE IF Len(lines) = 1 THEN lines[1]
    ELSE lines[1] \o <<"\n">> \o JoinLines(Tail(lines))

\* the text of the file described by f
FileText(f) ==
    JoinLines(f.banners \o (IF f.header.present THEN <<f.header.text>> ELSE <<>>)
              \o [k \in 1..Len(f.rows) |-> f.rows[k].text])
    \o (IF f.eol THEN <<"\n">> ELSE EMPTY)

Files ==
    [banners : UNION {[1..n -> BannerLines] : n \in 0..MaxBanners},
     header : HeaderLines,
     rows : UNION {[1..n -> RowLines] : n \in 0..MaxRows},
     eol : BOOLEAN]

\* a run that has found its file; the file is tin
InitIngest ==
    /\ variant \in Variants
    /\ env = [username |-> TRUE, privateKey |-> TRUE, serviceAccount |-> TRUE, runOnStart |-> FALSE]
    /\ mainPc = "waiting"
    /\ exitCode = -1
    /\ runs = <<[NewRun("cron") EXCEPT !.pc = "get", !.session = "open"]>>
    /\ store = <<>>
    /\ requests = <<>>
    /\ now = 0
    /\ tin \in Files
    /\ tout = NoOutput
    /\ snap = NoSnap

IngestOutput(parsed) ==
    [NoOutput EXCEPT !.done = TRUE, !.out = parsed.records, !.err = parsed.err]

\* const trips = await processCSVFile(sftp, file.name)
DoIngest ==
    /\ ~tout.done
    /\ tout' = IngestOutput(processCSVFile(FileText(tin)))
    /\ UNCHANGED <<variant, env, mainPc, exitCode, runs, store, requests, now, tin, snap>>

\* the run goes on with what processCSVFile returned or threw
DoProcess ==
    /\ tout.done /\ ~tout.staged
    /\ tout' = [tout EXCEPT !.staged = TRUE]
    /\ Downloaded(1, Processed([runs[1] EXCEPT !.gets = @ + 1],
                               [err |-> tout.err, records |-> tout.out],
                               Transform(variant, tout.out)),
                  Transform(variant, tout.out))
    /\ UNCHANGED <<variant, env, mainPc, exitCode, store, now, tin, snap>>

EndIngest == End(1) /\ tout.staged

NextIngest == DoIngest \/ DoProcess \/ EndIngest

SpecIngest == InitIngest /\ [][NextIngest]_vars

----------------------------------------------------------------------------
(* The file locator on run dates *)

\* leap and common years, a century year that is leap and one that is not
Years == {2000, 2024, 2025, 2100}

Dates == {date \in [y : Years, m : 1..12, d : 1..31] : date.d <= DaysInMonth(date.y, date.m)}

InitLocate ==
    /\ Idle({"sheets"})
    /\ tin \in Dates

\* const target = getYesterdayFileName(), called on the day tin
DoLocate ==
    /\ ~tout.done
    /\ tout' = [tout EXCEPT !.done = TRUE, !.out = getYesterdayFileName(tin)]
    /\ UNCHANGED <<variant, env, mainPc, exitCode, runs, store, requests, now, tin, snap>>

NextLocate == DoLocate

SpecLocate == InitLocate /\ [][NextLocate]_vars

----------------------------------------------------------------------------
(* The one-shot build of the append pipeline next to the scheduled services *)

\* main() of the one-shot build is a single run; the process starts there or, for the
\* services, at module evaluation
InitExit ==
    /\ variant \in Variants
    /\ env \in Envs
    /\ mainPc \in {"load", "oneshot"}
    /\ mainPc = "oneshot" => (variant = "sheets" /\ ~env.serviceAccount /\ ~env.runOnStart)
    /\ exitCode = -1
    /\ runs = <<>>
    /\ store = <<>>
    /\ requests = <<>>
    /\ now = 0
    /\ tin = <<>>
    /\ tout = NoOutput
    /\ snap = NoSnap

\* main() is called: new SftpClient(), try { await sftp.connect(...
OneShotStart ==
    /\ mainPc = "oneshot"
    /\ mainPc' = "running"
    /\ runs' = <<NewRun("main")>>
    /\ UNCHANGED <<variant, env, exitCode, store, requests, now>> /\ NoTest

OneShotExitCode_Zero(run) == 0

\* main().then(() => process.exit(0)).catch((err) => { ...; process.exit(1) })
OneShotExitCode(run) == IF run.outcome = "failed" THEN 1 ELSE 0

\* the promise of main() settles
OneShotDone ==
    /\ mainPc = "running"
    /\ runs[1].pc = "done"
    /\ Exit(OneShotExitCode(runs[1]))
    /\ UNCHANGED <<variant, env, runs, store, requests, now>> /\ NoTest

NextExit == Next \/ OneShotStart \/ OneShotDone

SpecExit == InitExit /\ [][NextExit]_vars

----------------------------------------------------------------------------
(* Properties *)

RunIds == 1..Len(runs)

HasTripId(trip) == ~NoTripId(trip)

\* the trip ids of the records of tin that have one, in input order
TripIds == LET sel == SelectSeq(tin, HasTripId) IN [i \in 1..Len(sel) |-> sel[i][COL_ID]]

RECURSIVE StagedIds(_)
StagedIds(batches) ==
    IF batches = <<>> THEN <<>>
    ELSE [i \in 1..Len(Head(batches).ops) |-> Head(batches).ops[i].id] \o StagedIds(Tail(batches))

\* C1: at most one run of syncUberTrips is between its start and its completion
C1_AtMostOneRunInFlight == Cardinality({r \in RunIds : InFlight(r)}) <= 1

\* C2: a run that has completed, on whatever path, has closed the session it opened,
\* and a session is open only between connect and the finally block
C2_SessionClosedWhenDone ==
    \A r \in RunIds :
        /\ ~InFlight(r) => runs[r].session = "closed"
        /\ runs[r].session = "open" => runs[r].pc \in {"list", "get", "deliver", "end"}

C2_Witness ==
    /\ \E r \in RunIds : runs[r].pc = "done" /\ runs[r].outcome = "failed" /\ runs[r].gets = 1
    /\ \E r \in RunIds : runs[r].pc = "done" /\ runs[r].outcome \in {"delivered", "notfound"}

\* C3: the n records with a trip id are written in ceil(n/500) batches of at most 500
\* writes each, every record in exactly one batch
C3_BatchesOfAtMostLimit ==
    \A r \in RunIds :
        LET batches == runs[r].batches
            n == Len(TripIds)
        IN  /\ Len(batches) = (n + BATCH_LIMIT - 1) \div BATCH_LIMIT
            /\ \A i \in 1..Len(batches) : Len(batches[i].ops) <= BATCH_LIMIT
            /\ StagedIds(batches) = TripIds

SubmittedTwice ==
    /\ Len(runs) = 2
    /\ \A r \in RunIds : runs[r].pc = "done" /\ runs[r].outcome = "delivered"

TIMESTAMPS == {"createdAt", "syncedAt"}

\* C5 as stated: after the second submission the collection is what it was after the first
C5_SecondSubmissionSameState == SubmittedTwice => store = snap.coll

\* C5 as amended: after the second submission the collection has the same documents, one
\* per trip id of the sequence, equal to those left by the first in every field but the
\* write timestamps
C5_SecondSubmissionSameButTimestamps ==
    SubmittedTwice =>
        /\ DOMAIN store = DOMAIN snap.coll
        /\ DOMAIN store = Range(TripIds)
        /\ \A id \in DOMAIN store :
              /\ DOMAIN store[id] = DOMAIN snap.coll[id]
              /\ \A k \in DOMAIN store[id] \ TIMESTAMPS : store[id][k] = snap.coll[id][k]

C5_Witness == SubmittedTwice /\ Len(TripIds) > Cardinality(Range(TripIds)) /\ store # snap.coll

\* C6: a listing without an entry named exactly as the target ends the run as a skip:
\* no download, no write to any destination, no error
C6_NotFoundIsCleanSkip ==
    \A r \in RunIds :
        (runs[r].target # EMPTY /\ runs[r].target \notin runs[r].files) =>
            /\ runs[r].pc \in {"end", "done"}
            /\ runs[r].outcome = "notfound" /\ ~runs[r].err
            /\ runs[r].gets = 0
            /\ runs[r].batches = <<>> /\ runs[r].resp = "none"
            /\ \A q \in 1..Len(requests) : requests[q].run # r

C6_Witness ==
    \E r \in RunIds :
        /\ runs[r].pc = "done" /\ runs[r].outcome = "notfound" /\ runs[r].session = "closed"
        /\ ToUpperCase(runs[r].target) \in runs[r].files

\* C7: after a run has failed the process is still alive, unless a signal stopped it
C7_FailedRunKeepsScheduler ==
    (\E r \in RunIds : runs[r].pc = "done" /\ runs[r].outcome = "failed") =>
        (Alive \/ exitCode = 0)

RequiredCredentials ==
    /\ env.username /\ env.privateKey
    /\ variant \in StoreVariants => env.serviceAccount

GroupOf(trip) == IF COL_GRUPO \in DOMAIN trip THEN trip[COL_GRUPO] ELSE EMPTY

\* the rows of tin whose trimmed group is none of ADMINISTRATIVO, COMERCIAL
KeptRows == {i \in 1..Len(tin) : Trim(GroupOf(tin[i])) \notin {ADMINISTRATIVO, COMERCIAL}}

\* the row of tin the k-th output record comes from
SourceRow(k) ==
    IF variant = "sheets" THEN k
    ELSE CHOOSE i \in KeptRows : Cardinality({j \in KeptRows : j <= i}) = k

\* C9: the transformer returns no more records than it received; the exclusion filter
\* drops exactly the rows whose trimmed group is excluded, and no output group is excluded
C9_FilterDropsExcluded ==
    tout.done =>
        /\ Len(tout.out) <= Len(tin)
        /\ variant \in StoreVariants =>
              /\ Len(tout.out) = Cardinality(KeptRows)
              /\ \A k \in 1..Len(tout.out) :
                    /\ tout.out[k][COL_GRUPO] \notin {ADMINISTRATIVO, COMERCIAL}
                    /\ tout.out[k][COL_GRUPO] = GroupOf(tin[SourceRow(k)])

C9_Witness ==
    /\ tout.done /\ variant \in StoreVariants
    /\ Len(tin) = 2 /\ Len(tout.out) = 1
    /\ \E i \in 1..2 : GroupOf(tin[i]) = <<" ">> \o ADMINISTRATIVO \o <<" ">>
    /\ \E i \in 1..2 : GroupOf(tin[i]) = ToLowerCase(ADMINISTRATIVO)

Schema == IF variant = "sheets" THEN Range(COLUMNS) ELSE Range(STORE_KEYS)

\* C10: every output record has exactly the keys of the schema; a key copied from the
\* source holds the source value, or the empty string when the source lacks the column;
\* the numeric fields of the stored document are zero then
C10_ProjectionTotal ==
    /\ tout.done =>
          \A k \in 1..Len(tout.out) :
              /\ DOMAIN tout.out[k] = Schema
              /\ \A col \in Schema \ {COL_NOME_COMPLETO, COL_STATUS} :
                    tout.out[k][col] =
                        IF col \in DOMAIN tin[SourceRow(k)] THEN tin[SourceRow(k)][col] ELSE EMPTY
    /\ (tout.staged /\ variant = "fs1") =>
          LET written == SelectSeq(tout.out, HasTripId)
          IN  \A b \in 1..Len(tout.batches) : \A j \in 1..Len(tout.batches[b].ops) :
                  LET doc == tout.batches[b].ops[j].data
                  IN  /\ written[j][COL_DIST] = EMPTY => doc.distanceMi = <<0, 0>>
                      /\ written[j][COL_DUR] = EMPTY => doc.durationMin = <<0, 0>>
                      /\ written[j][COL_TOTAL] = EMPTY => doc.totalValueBRL = <<0, 0>>

C10_Witness ==
    /\ tout.staged /\ variant = "fs1"
    /\ \E k \in 1..Len(tout.out) :
          /\ EXTRA_COL \in DOMAIN tin[SourceRow(k)]
          /\ COL_DUR \notin DOMAIN tin[SourceRow(k)]
          /\ tout.out[k][COL_DUR] = EMPTY
    /\ \E b \in 1..Len(tout.batches) : \E j \in 1..Len(tout.batches[b].ops) :
          tout.batches[b].ops[j].data.durationMin = <<0, 0>>

WellFormed(f) == f.header.present /\ \A k \in 1..Len(f.rows) : f.rows[k].ok

\* C11: a text of N banner lines, the header line and M data rows is parsed to M records
\* in row order, each with the header's names as keys and the row's values under them;
\* the lines before the header do not show in the result
C11_BannerDiscardedRowsKept ==
    (tout.done /\ WellFormed(tin)) =>
        /\ tout.err = "none"
        /\ Len(tout.out) = Len(tin.rows)
        /\ \A k \in 1..Len(tout.out) :
              /\ DOMAIN tout.out[k] = Range(tin.header.names)
              /\ \A j \in 1..Len(tin.header.names) :
                    tout.out[k][tin.header.names[j]] = tin.rows[k].values[j]

C11_Witness ==
    /\ tout.done /\ WellFormed(tin)
    /\ Len(tin.banners) = 2 /\ tin.banners[1] = BANNER_TEXT
    /\ tin.header.text = HEADER_UPPER
    /\ Len(tin.rows) = 2 /\ tin.rows[1].text = ROW_QUOTED /\ tin.rows[2].text = ROW_SPACES
    /\ Len(tout.out) = 2

\* C12: a text without the header line is parsed to no records and no error, and the run
\* goes on without failing; a malformed row after the header is an error, which fails
\* the run before anything is sent to a destination
C12_NoHeaderEmptyMalformedFatal ==
    /\ (tout.done /\ ~tin.header.present) =>
          /\ tout.out = <<>> /\ tout.err = "none"
          /\ tout.staged => (~runs[1].err /\ (runs[1].pc = "done" => runs[1].outcome = "delivered"))
    /\ (tout.done /\ tin.header.present /\ ~WellFormed(tin)) =>
          /\ tout.err # "none"
          /\ tout.staged =>
                /\ runs[1].err /\ runs[1].pc \in {"end", "done"}
                /\ runs[1].pc = "done" => runs[1].outcome = "failed"
                /\ runs[1].batches = <<>> /\ requests = <<>>

C12_Witness ==
    /\ tout.staged /\ runs[1].pc = "done" /\ runs[1].outcome = "failed"
    /\ tin.header.present /\ Len(tin.rows) = 2
    /\ tin.rows[1].ok /\ tin.rows[2].text = ROW_SHORT

\* days from 0000-03-01 to the date, by the civil-calendar day count
DayNumber(date) ==
    LET yy == IF date.m <= 2 THEN date.y - 1 ELSE date.y
        mm == IF date.m <= 2 THEN date.m + 9 ELSE date.m - 3
    IN  365 * yy + (yy \div 4) - (yy \div 100) + (yy \div 400) + ((153 * mm + 2) \div 5) + date.d

\* the date a file name daily_trips-YYYY_MM_DD.csv names
NamedDate(name) ==
    [y |-> DigitsValue(SubSeq(name, 13, 16)), m |-> DigitsValue(SubSeq(name, 18, 19)),
     d |-> DigitsValue(SubSeq(name, 21, 22))]

\* C13: the target name is daily_trips-YYYY_MM_DD.csv with two-digit month and day, and
\* the date it names is a calendar date, the one just before the run date
C13_TargetNamesPreviousDay ==
    tout.done =>
        /\ Len(tout.out) = 26
        /\ SubSeq(tout.out, 1, 12) = FILE_PREFIX /\ SubSeq(tout.out, 23, 26) = FILE_SUFFIX
        /\ tout.out[17] = "_" /\ tout.out[20] = "_"
        /\ IsDigits(SubSeq(tout.out, 13, 16) \o SubSeq(tout.out, 18, 19) \o SubSeq(tout.out, 21, 22))
        /\ NamedDate(tout.out).m \in 1..12 /\ NamedDate(tout.out).d \in 1..31
        /\ DayNumber(NamedDate(tout.out)) + 1 = DayNumber(tin)

C13_Witness ==
    /\ tout.done /\ tin = [y |-> 2100, m |-> 3, d |-> 1]
    /\ NamedDate(tout.out) = [y |-> 2100, m |-> 2, d |-> 28]

KeyedRecord(trip) == trip[COL_ID] # EMPTY

\* C14: the document-store sink stages one write per transformed record with a non-empty
\* trip id, in order, and none for the others; no write has an empty key and the sink does
\* not throw; the append sink sends a row for every record, keyed or not
C14_WriteStagedIffKeyed ==
    tout.staged =>
        /\ variant \in StoreVariants =>
              LET keyed == SelectSeq(tout.out, KeyedRecord)
              IN  /\ StagedIds(tout.batches) = [k \in 1..Len(keyed) |-> keyed[k][COL_ID]]
                  /\ \A b \in 1..Len(tout.batches) : \A j \in 1..Len(tout.batches[b].ops) :
                        tout.batches[b].ops[j].id # EMPTY
                  /\ ~StageSink(variant, tout.out, now).thrown
        /\ variant = "sheets" =>
              /\ Len(tout.values) = Len(tout.out)
              /\ \A k \in 1..Len(tout.values) : tout.values[k][1] = tout.out[k][COL_ID]

C14_Witness ==
    /\ tout.staged /\ variant \in StoreVariants
    /\ Len(tout.out) = 2 /\ tout.out[1][COL_ID] = EMPTY /\ tout.out[2][COL_ID] # EMPTY
    /\ StagedIds(tout.batches) = <<tout.out[2][COL_ID]>>

TrimmedOrEmpty(trip, col) == IF col \in DOMAIN trip THEN Trim(trip[col]) ELSE EMPTY

\* C15: the full name of an output record is the trimmed first name, one space and the
\* trimmed last name of its source row; with one of them missing or blank it is the other
\* alone, and with both it is empty
C15_FullNameTrimmedJoin ==
    (tout.done /\ variant \in StoreVariants) =>
        \A k \in 1..Len(tout.out) :
            LET first == TrimmedOrEmpty(tin[SourceRow(k)], COL_NOME)
                last  == TrimmedOrEmpty(tin[SourceRow(k)], COL_SOBRENOME)
                full  == tout.out[k][COL_NOME_COMPLETO]
            IN  /\ first # EMPTY /\ last # EMPTY => full = first \o <<" ">> \o last
                /\ first = EMPTY => full = last
                /\ last = EMPTY => full = first
                /\ full # EMPTY => (full[1] # " " /\ full[Len(full)] # " ")

C15_Witness ==
    /\ tout.done /\ variant \in StoreVariants /\ Len(tout.out) = 2
    /\ tout.out[1][COL_NOME_COMPLETO] = <<"A","n","a"," ","S","i","l","v","a">>
    /\ tout.out[2][COL_NOME_COMPLETO] = <<"d","a"," ","L","u","z">>

\* the requests sent by run r
SentBy(r) == {q \in 1..Len(requests) : requests[q].run = r}

\* the body built for each content holds one row per record, its cells in COLUMNS order
SheetRowsOrdered ==
    \A c \in Contents :
        LET trips == Transformed["sheets"][c]
            rows  == SheetValues(trips)
        IN  /\ Len(rows) = Len(trips)
            /\ \A k \in 1..Len(rows) :
                  /\ Len(rows[k]) = Len(COLUMNS)
                  /\ \A j \in 1..Len(COLUMNS) : rows[k][j] = trips[k][COLUMNS[j]]

\* C16: a run of the append pipeline with a non-empty transformed set sends exactly one
\* request, holding every record as a row in COLUMNS order; a response outside 200..299
\* fails the run with an error whose text holds the status code and the reason phrase
C16_OneRequestNon2xxFails ==
    /\ SheetRowsOrdered
    /\ variant = "sheets" =>
          \A r \in RunIds :
              /\ Cardinality(SentBy(r)) <= 1
              /\ runs[r].found > 0 => Cardinality(SentBy(r)) = 1
              /\ \A q \in SentBy(r) :
                    /\ Len(requests[q].values) = runs[r].found /\ runs[r].found > 0
                    /\ \E c \in Contents : requests[q].values = SheetValues(Transformed["sheets"][c])
              /\ (runs[r].pc \in {"end", "done"} /\ runs[r].res # NoResponse) =>
                    IF runs[r].res.status \in 200..299
                    THEN ~runs[r].err /\ (runs[r].pc = "done" => runs[r].outcome = "delivered")
                    ELSE /\ runs[r].err
                         /\ runs[r].pc = "done" => runs[r].outcome = "failed"
                         /\ StrIncludes(runs[r].message,
                                ToStr(runs[r].res.status) \o <<" ">> \o runs[r].res.statusText)

C16_Witness ==
    /\ variant = "sheets" /\ Len(requests) = 2
    /\ \E r \in RunIds : /\ runs[r].pc = "done" /\ runs[r].outcome = "failed"
                         /\ runs[r].res.status = 404 /\ runs[r].message # "none"
    /\ \E r \in RunIds : /\ runs[r].pc = "done" /\ runs[r].outcome = "delivered"
                         /\ runs[r].res.status = 200 /\ runs[r].found > 1

\* the contents whose transformed set is empty: no header, no data row, every row excluded
EmptySetCases ==
    /\ Ingested[CONTENT_NO_HEADER] = [err |-> "none", records |-> <<>>]
    /\ Ingested[CONTENT_HEADER_ONLY] = [err |-> "none", records |-> <<>>]
    /\ Ingested[CONTENT_ADMIN].records # <<>>
    /\ \A v \in StoreVariants : Transformed[v][CONTENT_ADMIN] = <<>>

\* C17: a run whose transformed set is empty sends no request and submits no batch, in
\* either sink, and completes without error
C17_EmptySetNoDelivery ==
    \A r \in RunIds :
        runs[r].found = 0 =>
            /\ SentBy(r) = {}
            /\ runs[r].batches = <<>> /\ runs[r].resp = "none"
            /\ ~runs[r].err /\ runs[r].pc \in {"end", "done"}
            /\ runs[r].pc = "done" => runs[r].outcome = "delivered"

C17_Witness ==
    /\ EmptySetCases
    /\ \E v \in Variants : \A c \in {CONTENT_NO_HEADER, CONTENT_HEADER_ONLY} : Transformed[v][c] = <<>>
    /\ variant \in StoreVariants /\ Len(runs) = 2
    /\ \A r \in RunIds : runs[r].pc = "done" /\ runs[r].gets = 1
    /\ runs[1].found = 0 /\ runs[1].outcome = "delivered"
    /\ runs[2].found > 0 /\ store # <<>>

\* the process is the one-shot build
OneShot == mainPc \in {"oneshot", "running"} \/ (runs # <<>> /\ runs[1].kind = "main")

SomeRunFailed == \E r \in RunIds : runs[r].pc = "done" /\ runs[r].outcome = "failed"

\* C18 as stated: the exit code is 0 when the runs succeeded or skipped and non-zero
\* when the set-up or a run failed
C18_ExitCodeTellsOutcome ==
    mainPc = "exited" => (exitCode = 0 <=> (RequiredCredentials /\ ~SomeRunFailed))

\* C18 as amended: the one-shot process exits 0 after a delivered or skipped run and 1
\* after a failed one; a process exits non-zero only after a set-up failure or a failed
\* run, and never with 0 when a required credential is missing
C18_ExitCodes ==
    mainPc = "exited" =>
        /\ OneShot =>
              /\ runs[1].pc = "done"
              /\ runs[1].outcome \in {"delivered", "notfound"} => exitCode = 0
              /\ runs[1].outcome = "failed" => exitCode = 1
        /\ exitCode # 0 => (~RequiredCredentials \/ SomeRunFailed)
        /\ ~RequiredCredentials => exitCode # 0

C18_Witness ==
    /\ mainPc = "exited" /\ OneShot /\ exitCode = 0
    /\ runs[1].outcome = "delivered" /\ Len(requests) = 1 /\ runs[1].res.status = 200

\* the moves of a run: idle (connect, list) to located (get), through ingestion and
\* transformation to the delivery, or from any of them to the finally block
Transitions ==
    {<<"connect", "list">>, <<"list", "get">>, <<"get", "deliver">>, <<"deliver", "end">>,
     <<"connect", "end">>, <<"list", "end">>, <<"get", "end">>, <<"end", "done">>}

\* the stages a run has been through
Progress(run) == <<run.session # "none", run.gets, run.found >= 0, run.batches # <<>> \/ run.resp # "none">>

RunStep(a, b) ==
    /\ a.pc # b.pc => <<a.pc, b.pc>> \in Transitions
    /\ a.pc = b.pc => Progress(b) = Progress(a) /\ b.err = a.err /\ b.outcome = a.outcome
    /\ b.gets \in {a.gets, a.gets + 1} /\ b.gets <= 1
    /\ Len(b.batches) >= Len(a.batches) /\ (a.batches # <<>> => Len(b.batches) = Len(a.batches))
    /\ a.resp # "none" => b.resp # "none"
    /\ a.err => b.err /\ b.pc \in {"end", "done"} /\ Progress(b)[2] = Progress(a)[2]
                      /\ Progress(b)[3] = Progress(a)[3] /\ Progress(b)[4] = Progress(a)[4]
    /\ a.outcome = "notfound" => b.outcome = "notfound" /\ b.gets = 0 /\ Progress(b)[4] = FALSE
    /\ a.pc = "done" => b.outcome = a.outcome

\* C19: a run only moves along connect -> list -> get -> deliver -> end -> done, to the
\* end without a file (not found) or to the end with an error; a run that has failed
\* or ended never connects, lists, downloads, parses or writes again, it sends at most
\* one request, and a new attempt is a new run appended by a trigger of main()
C19_NoRetry ==
    [][/\ Len(runs') \in {Len(runs), Len(runs) + 1}
       /\ \A r \in RunIds : RunStep(runs[r], runs'[r])
       /\ \A r \in RunIds : Cardinality(SentBy(r)) <= 1 /\ SentBy(r) \subseteq (SentBy(r))'
       /\ Len(runs') > Len(runs) =>
             /\ mainPc \in {"start", "waiting"}
             /\ runs'[Len(runs')] = NewRun(runs'[Len(runs')].kind)
             /\ requests' = requests /\ store' = store]_vars

C19_Witness ==
    \E r \in RunIds : \E n \in RunIds :
        /\ r < n /\ runs[r].pc = "done" /\ runs[r].outcome = "failed" /\ runs[r].gets = 1
        /\ runs[n].kind = "cron" /\ runs[n].pc = "done" /\ runs[n].outcome = "delivered"

\* the writes a run has issued: submitted commits and the request it sent
Issued(r) == runs[r].batches # <<>> \/ runs[r].resp # "none" \/ SentBy(r) # {}

RECURSIVE OpsIn(_)
OpsIn(batches) == IF batches = <<>> THEN 0 ELSE Len(batches[1].ops) + OpsIn(Tail(batches))

\* C20: a run downloads only with the session open and the listing searched, it
\* transforms only after its download and parse, it issues writes only after the whole
\* record set was transformed (and for no more than that set), and its session is
\* closed only in the finally block after the awaited delivery has returned or thrown
C20_StagesInSequence ==
    \A r \in RunIds :
        LET run == runs[r]
        IN  /\ run.pc \in {"list", "get", "deliver"} => run.session = "open"
            /\ run.pc \in {"connect", "list"} => run.target = EMPTY /\ run.gets = 0
            /\ run.pc = "get" => run.target \in run.files /\ run.gets = 0 /\ run.found = -1
            /\ run.gets = 1 => run.pc \in {"deliver", "end", "done"}
            /\ run.found >= 0 => run.gets = 1
            /\ Issued(r) =>
                  /\ run.found > 0
                  /\ \A q \in SentBy(r) : Len(requests[q].values) = run.found
                  /\ run.batches # <<>> => OpsIn(run.batches) \in 1..run.found
            /\ run.pc = "deliver" => Issued(r) /\ ~run.err
            /\ run.session = "closed" =>
                  /\ run.pc = "done"
                  /\ run.resp # "pending"
                  /\ run.err \/ AllOk(run.batches)
                  /\ run.outcome = "delivered" /\ run.found > 0 => Issued(r)

C20_Witness ==
    \E r \in RunIds :
        /\ runs[r].session = "closed" /\ runs[r].outcome = "delivered" /\ runs[r].found > 0
        /\ runs[r].batches # <<>> /\ AllOk(runs[r].batches) /\ store # <<>>

\* the positions of the input records that survive the filter of the variant
Surviving(v, trips) == {i \in 1..Len(trips) : v = "sheets" \/ ~Excluded(trips[i])}

\* the k-th surviving position in input order
NthSurviving(v, trips, k) ==
    CHOOSE i \in Surviving(v, trips) : Cardinality({j \in Surviving(v, trips) : j < i}) = k - 1

\* the projection of one record in the variant
ProjectOne(v, trip) == IF v = "sheets" THEN ProjectSheets(trip) ELSE ProjectStore(trip)

\* C21: the output of the transformer holds one record per surviving input record,
\* in input order: the k-th output record is the projection of the k-th surviving
\* input record, whether or not an earlier record has the same trip identifier
C21_OrderKeptNoDedup ==
    tout.done =>
        /\ Len(tout.out) = Cardinality(Surviving(variant, tin))
        /\ \A k \in 1..Len(tout.out) :
              tout.out[k] = ProjectOne(variant, tin[NthSurviving(variant, tin, k)])

C21_Witness ==
    /\ tout.done /\ variant \in StoreVariants /\ Len(tin) = 2 /\ Len(tout.out) = 2
    /\ tout.out[1][COL_ID] = tout.out[2][COL_ID] /\ tout.out[1][COL_ID] # EMPTY
    /\ tout.out[1] # tout.out[2]

\* C22: in the append variant every transformed record has the pending marker as its
\* verification status, also when the source row has a value in that column, and the
\* marker is the last cell of every row of the pushed body
C22_StatusAlwaysPending ==
    variant = "sheets" =>
        /\ tout.done =>
              /\ Len(tout.out) = Len(tin)
              /\ \A k \in 1..Len(tout.out) : tout.out[k][COL_STATUS] = PENDENTE
        /\ tout.staged =>
              /\ Len(tout.values) = Len(tin)
              /\ \A k \in 1..Len(tout.values) :
                    /\ Len(tout.values[k]) = Len(COLUMNS)
                    /\ tout.values[k][Len(tout.values[k])] = PENDENTE

C22_Witness ==
    /\ variant = "sheets" /\ tout.staged /\ Len(tout.values) = 2
    /\ COL_STATUS \in DOMAIN tin[1] /\ tin[1][COL_STATUS] \notin {EMPTY, PENDENTE}
    /\ COL_STATUS \notin DOMAIN tin[2]

\* the sink of run r threw while staging: the run holds an error that no commit caused,
\* which in sendToFirestore is batch.set called on the batch it has already committed
SetAfterCommit(r) ==
    /\ runs[r].batches # <<>> /\ runs[r].err
    /\ \A i \in 1..Len(runs[r].batches) : runs[r].batches[i].status # "failed"

\* the writes of commit i are submitted again in commit j
Resubmitted(batches, i, j) ==
    /\ Len(batches[i].ops) <= Len(batches[j].ops)
    /\ \A k \in 1..Len(batches[i].ops) : batches[j].ops[k] = batches[i].ops[k]

\* C23: the chunked sink never stages a write into the batch it has submitted, and a
\* later commit never holds the writes of an earlier one
C23_NoStagingAfterCommit ==
    variant = "fs2" =>
        \A r \in RunIds :
            /\ ~SetAfterCommit(r)
            /\ \A i \in 1..Len(runs[r].batches) : \A j \in 1..Len(runs[r].batches) :
                  i < j => ~Resubmitted(runs[r].batches, i, j)

\* C24: with RUN_ON_START the schedule is registered only once the initial run has
\* ended (delivered, not found or failed): while the initial run is in flight main()
\* is still awaiting it and no other run exists, and every scheduled run was started
\* after the initial run had ended
C24_ScheduleAfterInitialRun ==
    /\ \A r \in RunIds :
          (runs[r].kind = "initial" /\ InFlight(r)) => mainPc = "initial" /\ Len(runs) = 1
    /\ (env.runOnStart /\ mainPc \in {"schedule", "waiting"}) =>
          /\ runs # <<>> /\ runs[1].kind = "initial" /\ runs[1].pc = "done"
          /\ runs[1].outcome \in {"delivered", "notfound", "failed"}
    /\ \A r \in RunIds :
          (runs[r].kind = "cron" /\ env.runOnStart) =>
              r > 1 /\ runs[1].kind = "initial" /\ runs[1].pc = "done"

C24_Witness ==
    /\ env.runOnStart /\ Len(runs) = 2 /\ mainPc = "waiting"
    /\ runs[1].kind = "initial" /\ runs[1].outcome = "failed"
    /\ runs[2].kind = "cron" /\ runs[2].pc = "get"

\* the writes a run has submitted, in the order it staged them
RECURSIVE AllOps(_)
AllOps(batches) == IF batches = <<>> THEN <<>> ELSE Head(batches).ops \o AllOps(Tail(batches))

\* the collection holds, for every trip id the run wrote, a document with the data of
\* the last write of the run to that id
HoldsLastWrites(r) ==
    LET ops == AllOps(runs[r].batches)
    IN  \A id \in {ops[k].id : k \in 1..Len(ops)} :
            /\ id \in DOMAIN store
            /\ store[id] = ops[SetMax({k \in 1..Len(ops) : ops[k].id = id})].data

\* C25: when a document-store run ends delivered, the collection holds one document
\* for each trip id among its records, with the fields of the last record of that id
C25_StoreHoldsLastRecordPerId ==
    [][\A r \in RunIds :
          (variant \in StoreVariants /\ runs[r].pc = "end" /\ runs'[r].pc = "done"
              /\ runs'[r].outcome = "delivered") => HoldsLastWrites(r)]_vars

\* a run that has terminated: in one of the three final states, with its session closed
Terminated(r) ==
    /\ r \in RunIds /\ runs[r].pc = "done"
    /\ runs[r].outcome \in {"delivered", "notfound", "failed"}
    /\ runs[r].session = "closed"

\* C26: when every awaited call returns or throws, every started run terminates in
\* exactly one final state with its session closed, as long as the process is not
\* stopped in between; a run that has ended is in such a state and never moves again
C26_EveryRunTerminates ==
    /\ \A r \in 1..MaxLiveRuns : (Len(runs) >= r) ~> (Terminated(r) \/ ~Alive)
    /\ [](\A r \in RunIds : runs[r].pc = "done" => Terminated(r))
    /\ [][\A r \in RunIds : runs[r].pc = "done" => runs'[r] = runs[r]]_vars

C26_Witness ==
    /\ Alive /\ mainPc = "waiting" /\ Len(runs) = MaxLiveRuns
    /\ \A r \in RunIds : Terminated(r)
    /\ runs[1].outcome = "failed" /\ runs[1].gets = 1
====
